---- MODULE Spec2Model ----
(***************************************************************************)
(* libdupes.Dupes (src/undupes.go, lines 116-276): duplicate detection by  *)
(* size, then md5 of the first initialBlocksize bytes, then md5 of the     *)
(* whole file.                                                             *)
(*                                                                         *)
(* A file's content is a run-length sequence of bytes, <<[b, n], ...>>,    *)
(* so that files longer than initialBlocksize = 4096 bytes stay small      *)
(* values.  Paths are 1..NumFiles; NoPath stands for Go's "".              *)
(***************************************************************************)
EXTENDS Integers, Sequences, FiniteSets, Bags, TLC

\* Number of files in the scanned tree.
NumFiles == 5

\* Number of unreadable files in the runs of SpecCb.
MaxUnreadableCb == 1

\* const initialBlocksize = 4096
initialBlocksize == 4096

Paths == 1..NumFiles
NoPath == 0
NoErr == "nil"
ZeroSum == 0
EmptyMap == <<>>

\* The file contents the tree is drawn from: an empty file, two sizes below
\* the block size (one of them with two different contents), and two files
\* longer than the block size that agree on their first 4096 bytes only.
ContentSeq ==
    << <<>>,
       <<[b |-> 1, n |-> 3]>>,
       <<[b |-> 1, n |-> 5]>>,
       <<[b |-> 2, n |-> 5]>>,
       <<[b |-> 1, n |-> 4100]>>,
       <<[b |-> 1, n |-> 4096], [b |-> 2, n |-> 4]>> >>

\* Root arguments: "/data" is the directory holding every file,
\* "/nonexistent" does not exist.
ExistingDirs == {"/data"}
RootChoices ==
    { <<"/data">>, <<"/nonexistent">>, <<"/data", "/nonexistent">> }

\* A *regexp.Regexp is the set of paths it matches; nil is [nil |-> TRUE].
Regexp(m) == [nil |-> FALSE, m |-> m]
NilRegexp == [nil |-> TRUE, m |-> {}]
Odd == { p \in Paths : p % 2 = 1 }
Even == { p \in Paths : p % 2 = 0 }
PreferChoices == { Regexp({1}), Regexp(Odd), Regexp(Paths) }
OverChoices == { NilRegexp, Regexp(Even), Regexp(Paths) }

\* The cache flag: none, a file below the scanned root, a file elsewhere.
CachePaths == { "", "/data/cache.json", "/tmp/cache.json" }
UnderRoot(cachePath) == cachePath = "/data/cache.json"

NoArgs ==
    [cachePath |-> "", dryRun |-> FALSE, prefer |-> NilRegexp,
     over |-> NilRegexp, invert |-> FALSE, symlink |-> FALSE]

\* blocksize arguments tried on hash in SpecHash
HashLimits == {-1, 0, 3, 5, 4096, 4100, 4101}

VARIABLES
    content,      \* file system: path -> bytes of the file
    unreadable,   \* paths on which os.Open fails
    roots,        \* the roots argument of Dupes
    ri,           \* index of the next root to walk
    pending,      \* map[string]int64: path -> size
    todo,         \* keys of pending the range loop has not yet visited
    files,        \* map[int64]*filesWithHashes
    i,            \* the loop counter i
    dupes,        \* the returned []Info
    err,          \* the returned error
    pc,           \* "walk", "loop", "done" (returned), "panic", "hash"
    hashCalls,    \* bag of the hash calls made: [path, blocksize, err]
    hres,         \* SpecHash: the last hash call and its result
    progressCb,   \* the progressCb argument of Dupes: FALSE is nil
    cbCalls,      \* the invocations of progressCb so far: [cur, outof]
    shadow,       \* files as the same run with a nil progressCb builds it
    exists,       \* main.go: the paths that are regular files on disk
    links,        \* main.go: the symbolic links on disk, path -> target
    cache,        \* the cache file: [present, text]
    cache0,       \* the cache file before the run
    args,         \* the arguments of runAutomatic
    found,        \* what getDupesAndPrintSummary returned
    mainErr,      \* the error runAutomatic returned
    out,          \* the messages printed: "Indexing...", "Loaded", "Saved"
    cacheOps,     \* the operations made on the cache file: "read", "write"
    scanned,      \* whether dupes.Dupes was called
    removeCalls,  \* the calls of remove: [g (index of the group), file, keep]
    runs,         \* the number of invocations of the program so far
    firstScan,    \* the groups the first scan found: [done, groups]
    existsAtCall, \* the regular files on disk when the last run began
    curGroup,     \* runInteractive: the loop index i (0-based) over dupes
    curKeep,      \* runInteractive: the variable keep
    curLine,      \* runInteractive: the last line read from stdin
    prompts       \* runInteractive: the prompts printed for the current group

cbVars == <<progressCb, cbCalls, shadow>>

runVars == <<runs, firstScan, existsAtCall>>

interVars == <<curGroup, curKeep, curLine, prompts>>

mainVars == <<exists, links, cache, cache0, args, found, mainErr, out,
              cacheOps, scanned, removeCalls, runVars, interVars>>

vars == <<content, unreadable, roots, ri, pending, todo, files, i, dupes, err,
          pc, hashCalls, hres, cbVars, mainVars>>

----------------------------------------------------------------------------
\* Bytes and digests

RECURSIVE Size(_)
Size(c) == IF c = <<>> THEN 0 ELSE Head(c).n + Size(Tail(c))

\* The first k bytes of c (all of c when it is shorter).
RECURSIVE Read(_, _)
Read(c, k) ==
    IF k <= 0 \/ c = <<>> THEN <<>>
    ELSE IF Head(c).n <= k
         THEN <<Head(c)>> \o Read(Tail(c), k - Head(c).n)
         ELSE <<[b |-> Head(c).b, n |-> k]>>

\* md5 as a streaming fold over the bytes; on the contents of this model it
\* has no collisions (the repository accepts md5 equality as content
\* equality) and never returns the zero value of [md5.Size]byte.
RECURSIVE md5Fold(_, _)
md5Fold(h, c) ==
    IF c = <<>> THEN h
    ELSE md5Fold((h * 8192 + Head(c).n) * 4 + Head(c).b, Tail(c))

md5Sum(c) == md5Fold(1, c)

\* io.CopyN(h, f, n): n bytes, or io.EOF when the file ends before.
CopyN(c, n) ==
    IF Size(c) < n THEN [data |-> c, err |-> "EOF"]
    ELSE [data |-> Read(c, n), err |-> NoErr]

\* Mutant of hash: a failed os.Open is not reported (zero sum, nil error).
hashOpenErrorDropped(path, blocksize) ==
    IF path \in unreadable THEN [sum |-> ZeroSum, err |-> NoErr]
    ELSE IF blocksize > 0
         THEN LET r == CopyN(content[path], blocksize) IN
              IF r.err # NoErr THEN [sum |-> ZeroSum, err |-> r.err]
              ELSE [sum |-> md5Sum(r.data), err |-> NoErr]
         ELSE [sum |-> md5Sum(content[path]), err |-> NoErr]

\* func hash(path string, blocksize int64) ([md5.Size]byte, error)
hash(path, blocksize) ==
    IF path \in unreadable THEN [sum |-> ZeroSum, err |-> "open"]
    ELSE IF blocksize > 0
         THEN LET r == CopyN(content[path], blocksize) IN
              IF r.err # NoErr THEN [sum |-> ZeroSum, err |-> r.err]
              ELSE [sum |-> md5Sum(r.data), err |-> NoErr]
         ELSE [sum |-> md5Sum(content[path]), err |-> NoErr]

min(x, y) == IF x < y THEN x ELSE y

----------------------------------------------------------------------------
\* Go maps

Put(m, k, v) == [d \in DOMAIN m \cup {k} |-> IF d = k THEN v ELSE m[d]]

\* fs, _ := m[k] for a map of slices: the nil slice when k is absent
Get(m, k) == IF k \in DOMAIN m THEN m[k] ELSE <<>>

Range(s) == {s[k] : k \in DOMAIN s}

Call(path, blocksize, r) ==
    [path |-> path, blocksize |-> blocksize, err |-> r.err]

RECURSIVE AddCalls(_, _)
AddCalls(bag, calls) ==
    IF calls = <<>> THEN bag
    ELSE AddCalls(bag (+) SetToBag({Head(calls)}), Tail(calls))

----------------------------------------------------------------------------
\* The body of the loop over pending

\* Mutant of newBucket: the first file of a size is hashed at once.
newBucketHashed(path) ==
    [hs |-> [Unhashed |-> path, FirstPassHashes |-> EmptyMap,
             FullHashes |-> EmptyMap],
     calls |-> <<[path |-> path, blocksize |-> -1, err |-> NoErr]>>]

\* files[size] = &filesWithHashes{Unhashed: path, ...}: no hash is computed
newBucket(path) ==
    [hs |-> [Unhashed |-> path, FirstPassHashes |-> EmptyMap,
             FullHashes |-> EmptyMap],
     calls |-> <<>>]

\* Mutant of firstPassUnhashed: the held file is hashed and forgotten.
firstPassUnhashedUnfiled(hs, size) ==
    IF hs.Unhashed = NoPath
    THEN [hs |-> hs, calls |-> <<>>, skip |-> FALSE, panic |-> FALSE]
    ELSE IF DOMAIN hs.FirstPassHashes # {} \/ DOMAIN hs.FullHashes # {}
    THEN [hs |-> hs, calls |-> <<>>, skip |-> TRUE, panic |-> TRUE]
    ELSE LET bs == min(initialBlocksize, size)
             r == hash(hs.Unhashed, bs)
             c == <<Call(hs.Unhashed, bs, r)>>
         IN  IF r.err # NoErr
             THEN [hs |-> hs, calls |-> c, skip |-> TRUE, panic |-> FALSE]
             ELSE [hs |-> [hs EXCEPT !.Unhashed = NoPath],
                   calls |-> c, skip |-> FALSE, panic |-> FALSE]

\* Mutant of firstPassUnhashed: hs.Unhashed = "" is left out.
firstPassUnhashedKept(hs, size) ==
    IF hs.Unhashed = NoPath
    THEN [hs |-> hs, calls |-> <<>>, skip |-> FALSE, panic |-> FALSE]
    ELSE IF DOMAIN hs.FirstPassHashes # {} \/ DOMAIN hs.FullHashes # {}
    THEN [hs |-> hs, calls |-> <<>>, skip |-> TRUE, panic |-> TRUE]
    ELSE LET bs == min(initialBlocksize, size)
             r == hash(hs.Unhashed, bs)
             c == <<Call(hs.Unhashed, bs, r)>>
         IN  IF r.err # NoErr
             THEN [hs |-> hs, calls |-> c, skip |-> TRUE, panic |-> FALSE]
             ELSE [hs |-> [hs EXCEPT
                             !.FirstPassHashes = Put(@, r.sum, hs.Unhashed)],
                   calls |-> c, skip |-> FALSE, panic |-> FALSE]

\* if hs.Unhashed != "" { ... }: first-pass hash of the held file.
\* skip is the continue statement, panic the "logic error!".
firstPassUnhashed(hs, size) ==
    IF hs.Unhashed = NoPath
    THEN [hs |-> hs, calls |-> <<>>, skip |-> FALSE, panic |-> FALSE]
    ELSE IF DOMAIN hs.FirstPassHashes # {} \/ DOMAIN hs.FullHashes # {}
    THEN [hs |-> hs, calls |-> <<>>, skip |-> TRUE, panic |-> TRUE]
    ELSE LET bs == min(initialBlocksize, size)
             r == hash(hs.Unhashed, bs)
             c == <<Call(hs.Unhashed, bs, r)>>
         IN  IF r.err # NoErr
             THEN [hs |-> hs, calls |-> c, skip |-> TRUE, panic |-> FALSE]
             ELSE [hs |-> [hs EXCEPT
                             !.FirstPassHashes = Put(@, r.sum, hs.Unhashed),
                             !.Unhashed = NoPath],
                   calls |-> c, skip |-> FALSE, panic |-> FALSE]

\* Mutant of appendFull: the list is replaced, not appended to.
appendFullOverwrites(hs, sum, path) ==
    [hs EXCEPT !.FullHashes = Put(@, sum, <<path>>)]

\* hs.FullHashes[sum] = append(fs, path)
appendFull(hs, sum, path) ==
    [hs EXCEPT !.FullHashes = Put(@, sum, Get(@, sum) \o <<path>>)]

\* Mutant of fullHashCurrent: the second pass hashes the first block again.
fullHashCurrentFirstBlock(hs, path, calls) ==
    LET r == hash(path, min(initialBlocksize, pending[path]))
        c == calls \o <<Call(path, -1, r)>>
    IN  IF r.err # NoErr THEN [hs |-> hs, calls |-> c]
        ELSE [hs |-> [hs EXCEPT !.FullHashes =
                        Put(@, r.sum, Get(@, r.sum) \o <<path>>)],
              calls |-> c]

\* sum, err := hash(path, -1) ... hs.FullHashes[sum] = append(fs, path)
fullHashCurrent(hs, path, calls) ==
    LET r == hash(path, -1)
        c == calls \o <<Call(path, -1, r)>>
    IN  IF r.err # NoErr THEN [hs |-> hs, calls |-> c]
        ELSE [hs |-> appendFull(hs, r.sum, path), calls |-> c]

\* Mutant of fullHashCollision: the held file is hashed but not filed.
fullHashCollisionDropsHeld(hs, sum, collision, path, calls) ==
    LET hs1 == [hs EXCEPT !.FirstPassHashes[sum] = NoPath]
        r == hash(collision, -1)
        c == calls \o <<Call(collision, -1, r)>>
    IN  IF r.err # NoErr THEN [hs |-> hs1, calls |-> c]
        ELSE LET r2 == hash(path, -1)
                 c2 == c \o <<Call(path, -1, r2)>>
             IN  IF r2.err # NoErr THEN [hs |-> hs1, calls |-> c2]
                 ELSE [hs |-> [hs1 EXCEPT !.FullHashes =
                                 Put(@, r2.sum, Get(@, r2.sum) \o <<path>>)],
                       calls |-> c2]

\* Mutant of fullHashCollision: the slot is not marked resolved.
fullHashCollisionKeepsSlot(hs, sum, collision, path, calls) ==
    LET r == hash(collision, -1)
        c == calls \o <<Call(collision, -1, r)>>
    IN  IF r.err # NoErr THEN [hs |-> hs, calls |-> c]
        ELSE fullHashCurrent(appendFull(hs, r.sum, collision), path, c)

\* Second-pass hash of the file held in the first-pass slot, which is marked
\* resolved ("") before it is hashed.
fullHashCollision(hs, sum, collision, path, calls) ==
    LET hs1 == [hs EXCEPT !.FirstPassHashes[sum] = NoPath]
        r == hash(collision, -1)
        c == calls \o <<Call(collision, -1, r)>>
    IN  IF r.err # NoErr THEN [hs |-> hs1, calls |-> c]
        ELSE fullHashCurrent(appendFull(hs1, r.sum, collision), path, c)

\* Mutant of firstPassCurrent: the current file is fully hashed even when
\* its first-pass digest is new.
firstPassCurrentAlwaysFull(hs, path, size) ==
    LET bs == min(initialBlocksize, size)
        r == hash(path, bs)
        c == <<Call(path, bs, r)>>
        r2 == hash(path, -1)
        c2 == c \o <<Call(path, -1, r2)>>
    IN  IF r.err # NoErr THEN [hs |-> hs, calls |-> c]
        ELSE IF r.sum \in DOMAIN hs.FirstPassHashes
        THEN [hs |-> [hs EXCEPT !.FullHashes =
                        Put(@, r2.sum, Get(@, r2.sum) \o <<path>>)],
              calls |-> c2]
        ELSE [hs |-> [hs EXCEPT !.FirstPassHashes = Put(@, r.sum, path)],
              calls |-> c2]

\* First-pass hash of the current file and what follows from it.
firstPassCurrent(hs, path, size) ==
    LET bs == min(initialBlocksize, size)
        r == hash(path, bs)
        c == <<Call(path, bs, r)>>
    IN  IF r.err # NoErr THEN [hs |-> hs, calls |-> c]
        ELSE IF r.sum \in DOMAIN hs.FirstPassHashes
        THEN LET collision == hs.FirstPassHashes[r.sum] IN
             IF collision # NoPath
             THEN fullHashCollision(hs, r.sum, collision, path, c)
             ELSE fullHashCurrent(hs, path, c)
        ELSE [hs |-> [hs EXCEPT !.FirstPassHashes = Put(@, r.sum, path)],
              calls |-> c]

\* One iteration for a size already seen.
loopBody(hs, path, size) ==
    LET a == firstPassUnhashed(hs, size) IN
    IF a.skip THEN [hs |-> a.hs, calls |-> a.calls, panic |-> a.panic]
    ELSE LET x == firstPassCurrent(a.hs, path, size) IN
         [hs |-> x.hs, calls |-> a.calls \o x.calls, panic |-> FALSE]

\* hs, ok := files[size]; if !ok { files[size] = ...; continue }; ...
\* The result is what the iteration leaves behind files[size].
bucketStep(fs, path, size) ==
    IF size \notin DOMAIN fs
    THEN [hs |-> newBucket(path).hs, calls |-> newBucket(path).calls,
          panic |-> FALSE]
    ELSE loopBody(fs[size], path, size)

\* Mutant of progressArgs: the callback is given what is left to do.
progressArgsRemaining(cur, pend) ==
    [cur |-> Cardinality(DOMAIN pend) - cur, outof |-> Cardinality(DOMAIN pend) - cur]

\* progressCb(i, len(pending))
progressArgs(cur, pend) ==
    [cur |-> cur, outof |-> Cardinality(DOMAIN pend)]

\* Mutant of iterate: the continue of the !ok branch sits in the callback's if.
iterateCbContinues(cb, fs, path, size, cur, pend) ==
    IF cb
    THEN { [files |-> fs, calls |-> <<>>, panic |-> FALSE,
            cbs |-> <<progressArgs(cur, pend)>>] }
    ELSE { [files |-> Put(fs, size, r.hs), calls |-> r.calls,
            panic |-> r.panic, cbs |-> <<>>] :
           r \in { bucketStep(fs, path, size) } }

\* The whole body of for path, size := range pending, from
\* if progressCb != nil { progressCb(i, len(pending)) } on; the callback
\* returns nothing and sees none of the variables of Dupes.  The body has
\* one outcome, given as a set of one element.
iterate(cb, fs, path, size, cur, pend) ==
    { [files |-> Put(fs, size, r.hs), calls |-> r.calls, panic |-> r.panic,
       cbs |-> IF cb THEN <<progressArgs(cur, pend)>> ELSE <<>>] :
      r \in { bucketStep(fs, path, size) } }

----------------------------------------------------------------------------
\* Group assembly and sorting

\* func (a bySize) Less(i, j int) bool
Less(a, b) == a.Size * Len(a.Names) < b.Size * Len(b.Names)

\* Mutant of isDupeSet: len(files) > 0
isDupeSetNonEmpty(names) == Len(names) > 0

\* if len(files) > 1
isDupeSet(names) == Len(names) > 1

\* for size, hs := range files { for _, files := range hs.FullHashes { ... } }
collect(fs) ==
    UNION { { [Size |-> size, Names |-> fs[size].FullHashes[sum]] :
                sum \in { s \in DOMAIN fs[size].FullHashes :
                            isDupeSet(fs[size].FullHashes[s]) } } :
            size \in DOMAIN fs }

\* sort.Sort(sort.Reverse(bySize(dupes))): afterwards no element is, by the
\* reversed Less, less than one before it.  The order of collection (map
\* iteration) and of ties (sort.Sort is not stable) is arbitrary.
sorted(s) ==
    \A j, k \in 1..Len(s) : j < k => ~Less(s[j], s[k])

sortedDupes(groups) ==
    { s \in [1..Cardinality(groups) -> groups] :
        Range(s) = groups /\ sorted(s) }

----------------------------------------------------------------------------
\* The state after construction: a file tree, the set of unreadable files and
\* the roots argument.  The loop below visits the paths in every order, so a
\* tree is listed once per multiset of (content, readability) rather than
\* once per assignment of paths.

TypeOf(idx, u, p) == 2 * idx[p] + (IF p \in u THEN 1 ELSE 0)

Trees ==
    { t \in [idx : [Paths -> 1..Len(ContentSeq)], u : SUBSET Paths] :
        \A p, q \in Paths :
            p < q => TypeOf(t.idx, t.u, p) <= TypeOf(t.idx, t.u, q) }

\* before the first invocation of main
NoRuns ==
    /\ runs = 0
    /\ firstScan = [done |-> FALSE, groups |-> <<>>]
    /\ existsAtCall = Paths
    /\ curGroup = 0
    /\ curKeep = -1
    /\ curLine = <<>>
    /\ prompts = 0

InitTree ==
    /\ \E t \in Trees :
          /\ content = [p \in Paths |-> ContentSeq[t.idx[p]]]
          /\ unreadable = t.u
    /\ ri = 1
    /\ pending = EmptyMap
    /\ todo = {}
    /\ files = EmptyMap
    /\ i = 0
    /\ dupes = <<>>
    /\ err = NoErr
    /\ hashCalls = EmptyBag
    /\ hres = <<>>
    /\ cbCalls = <<>>
    /\ shadow = EmptyMap
    /\ exists = Paths
    /\ links = EmptyMap
    /\ found = <<>>
    /\ mainErr = NoErr
    /\ out = {}
    /\ cacheOps = {}
    /\ scanned = FALSE
    /\ removeCalls = {}
    /\ args = NoArgs
    /\ NoRuns

\* no cache file
NoCache ==
    /\ cache = [present |-> FALSE, text |-> <<>>]
    /\ cache0 = cache

\* main.go always passes a callback (the progress bar)
Init ==
    /\ InitTree
    /\ NoCache
    /\ roots \in RootChoices
    /\ progressCb = TRUE
    /\ pc = "walk"

----------------------------------------------------------------------------
\* Dupes

\* pending[path] = int64(info.Size()) for every file below an existing root
walkFiles == [p \in exists |-> Size(content[p])]

\* filepath.Walk(root, func(path, info, err) { if info.IsDir() ... }): for a
\* root that does not exist Walk calls the function with a nil info, and
\* info.IsDir() panics; otherwise every file below the root enters pending.
WalkRoot ==
    /\ pc = "walk"
    /\ ri <= Len(roots)
    /\ IF roots[ri] \in ExistingDirs
       THEN /\ pending' = walkFiles @@ pending
            /\ ri' = ri + 1
            /\ pc' = IF ri = Len(roots) THEN "loop" ELSE "walk"
            /\ todo' = IF ri = Len(roots) THEN DOMAIN pending' ELSE {}
       ELSE /\ pc' = "panic"
            /\ UNCHANGED <<pending, ri, todo>>
    /\ UNCHANGED <<content, unreadable, roots, files, i, dupes, err,
                   hashCalls, hres, cbVars, mainVars>>

\* for path, size := range pending { ... }: one iteration, for any key the
\* loop has not visited yet.
Iterate(path) ==
    /\ pc = "loop"
    /\ path \in todo
    /\ \E r \in iterate(progressCb, files, path, pending[path], i, pending) :
       \E n \in iterate(FALSE, shadow, path, pending[path], i, pending) :
           /\ files' = r.files
           /\ hashCalls' = AddCalls(hashCalls, r.calls)
           /\ cbCalls' = cbCalls \o r.cbs
           /\ shadow' = n.files
           /\ pc' = IF r.panic THEN "panic" ELSE "loop"
    /\ i' = i + 1
    /\ todo' = todo \ {path}
    /\ UNCHANGED <<content, unreadable, roots, ri, pending, dupes, err, hres,
                   progressCb, mainVars>>

\* dupes := []Info{} ... sort.Sort(...); return dupes, nil
Assemble ==
    /\ pc = "loop"
    /\ todo = {}
    /\ dupes' \in sortedDupes(collect(files))
    /\ err' = NoErr
    /\ pc' = "done"
    /\ UNCHANGED <<content, unreadable, roots, ri, pending, todo, files, i,
                   hashCalls, hres, cbVars, mainVars>>

Next ==
    \/ WalkRoot
    \/ \E path \in Paths : Iterate(path)
    \/ Assemble

Spec == Init /\ [][Next]_vars

----------------------------------------------------------------------------
\* hash on its own: any path, any blocksize

InitHash ==
    /\ InitTree
    /\ NoCache
    /\ roots = <<"/data">>
    /\ progressCb = FALSE
    /\ pc = "hash"

HashFile(path, blocksize) ==
    /\ pc = "hash"
    /\ hres' = [path |-> path, blocksize |-> blocksize,
                result |-> hash(path, blocksize)]
    /\ UNCHANGED <<content, unreadable, roots, ri, pending, todo, files, i,
                   dupes, err, pc, hashCalls, cbVars, mainVars>>

NextHash == \E path \in Paths, blocksize \in HashLimits : HashFile(path, blocksize)

SpecHash == InitHash /\ [][NextHash]_vars

----------------------------------------------------------------------------
\* Dupes with either a nil or a non-nil progressCb, on trees with at most
\* MaxUnreadableCb unreadable files

InitCb ==
    /\ InitTree
    /\ Cardinality(unreadable) <= MaxUnreadableCb
    /\ NoCache
    /\ roots = <<"/data">>
    /\ progressCb \in BOOLEAN
    /\ pc = "walk"

SpecCb == InitCb /\ [][Next]_vars
----------------------------------------------------------------------------
\* encoding/json on []dupes.Info.  A JSON text is a sequence of tokens
\* (commas and white space left out); paths are valid UTF-8, so that
\* json.Marshal writes them unchanged.

Tok(k, v) == [k |-> k, v |-> v]

RECURSIVE encodeNames(_)
encodeNames(names) ==
    IF names = <<>> THEN <<>>
    ELSE <<Tok("str", Head(names))>> \o encodeNames(Tail(names))

encodeInfo(g) ==
    <<Tok("{", 0), Tok("Size", 0), Tok("num", g.Size), Tok("Names", 0),
      Tok("[", 0)>> \o encodeNames(g.Names) \o <<Tok("]", 0), Tok("}", 0)>>

RECURSIVE encodeInfos(_)
encodeInfos(gs) ==
    IF gs = <<>> THEN <<>> ELSE encodeInfo(Head(gs)) \o encodeInfos(Tail(gs))

\* Mutant of MarshalIndent: the names of the groups are not written.
MarshalIndentNoNames(gs) ==
    <<Tok("[", 0)>> \o
    encodeInfos([k \in 1..Len(gs) |-> [Size |-> gs[k].Size, Names |-> <<>>]])
    \o <<Tok("]", 0)>>

\* json.MarshalIndent(computedDupes, "", "  ")
MarshalIndent(gs) == <<Tok("[", 0)>> \o encodeInfos(gs) \o <<Tok("]", 0)>>

SyntaxError == [err |-> "syntax", v |-> <<>>]

\* the strings at the head of t
RECURSIVE takeStrs(_)
takeStrs(t) ==
    IF t # <<>> /\ Head(t).k = "str"
    THEN <<Head(t).v>> \o takeStrs(Tail(t))
    ELSE <<>>

\* the elements of the array, after its opening bracket
RECURSIVE parseInfos(_, _)
parseInfos(t, acc) ==
    IF t = <<>> THEN SyntaxError
    ELSE IF Head(t).k = "]"
    THEN IF Len(t) = 1 THEN [err |-> NoErr, v |-> acc] ELSE SyntaxError
    ELSE IF /\ Len(t) >= 7
            /\ t[1].k = "{" /\ t[2].k = "Size" /\ t[3].k = "num"
            /\ t[4].k = "Names" /\ t[5].k = "["
    THEN LET names == takeStrs(SubSeq(t, 6, Len(t)))
             j == 6 + Len(names)
         IN  IF j + 1 <= Len(t) /\ t[j].k = "]" /\ t[j + 1].k = "}"
             THEN parseInfos(SubSeq(t, j + 2, Len(t)),
                             Append(acc, [Size |-> t[3].v, Names |-> names]))
             ELSE SyntaxError
    ELSE SyntaxError

\* json.Unmarshal(data, &cachedDupes)
Unmarshal(t) ==
    IF t = <<>> \/ Head(t).k # "[" THEN SyntaxError
    ELSE parseInfos(Tail(t), <<>>)

----------------------------------------------------------------------------
\* main.go: getDupesAndPrintSummary, remove, runAutomatic

RECURSIVE Perms(_)
Perms(S) ==
    IF S = {} THEN {<<>>}
    ELSE UNION { { <<x>> \o o : o \in Perms(S \ {x}) } : x \in S }

\* the loop of Dupes over pending, in the order given (the files are
\* readable, and the "logic error!" is not reached)
RECURSIVE scanFold(_, _, _)
scanFold(fs, order, pend) ==
    IF order = <<>> THEN fs
    ELSE scanFold(Put(fs, pend[Head(order)],
                      bucketStep(fs, Head(order), pend[Head(order)]).hs),
                  Tail(order), pend)

\* dupes.Dupes(roots, cb): what the call can do, for every order of the loop
\* and of the sort: return groups with a nil error, or panic on a root that
\* does not exist.
Dupes(rs) ==
    IF \E k \in 1..Len(rs) : rs[k] \notin ExistingDirs
    THEN { [panic |-> TRUE, dupes |-> <<>>, err |-> NoErr] }
    ELSE { [panic |-> FALSE, dupes |-> d, err |-> NoErr] :
            d \in UNION { sortedDupes(collect(scanFold(EmptyMap, o, walkFiles))) :
                          o \in Perms(DOMAIN walkFiles) } }

\* what Dupes(rs) would return were the regular files on disk those of ex
FreshScan(ex) ==
    UNION { sortedDupes(collect(scanFold(EmptyMap, o,
                                         [p \in ex |-> Size(content[p])]))) :
            o \in Perms(ex) }

\* os.WriteFile(cachePath, jsonData, 0644)
WriteFile(text) == [present |-> TRUE, text |-> text]

\* Mutant of scanAndSave: the groups are saved without a test of cachePath.
scanAndSaveAlways(rs, cachePath, ch) ==
    { [panic |-> d.panic, dupes |-> d.dupes, err |-> d.err,
       cache |-> IF d.panic THEN ch ELSE WriteFile(MarshalIndent(d.dupes)),
       out |-> {"Indexing..."} \cup (IF d.panic THEN {} ELSE {"Saved"}),
       ops |-> (IF cachePath # "" THEN {"read"} ELSE {}) \cup
               (IF d.panic THEN {} ELSE {"write"}),
       scanned |-> TRUE] : d \in Dupes(rs) }

\* getDupesAndPrintSummary from "Indexing..." on: the scan, the summary and
\* the saving of the groups.  os.WriteFile does not fail.
scanAndSave(rs, cachePath, ch) ==
    { IF d.panic \/ d.err # NoErr \/ cachePath = ""
      THEN [panic |-> d.panic, dupes |-> d.dupes, err |-> d.err,
            cache |-> ch, out |-> {"Indexing..."},
            ops |-> IF cachePath # "" THEN {"read"} ELSE {},
            scanned |-> TRUE]
      ELSE [panic |-> FALSE, dupes |-> d.dupes, err |-> d.err,
            cache |-> WriteFile(MarshalIndent(d.dupes)),
            out |-> {"Indexing...", "Saved"},
            ops |-> {"read", "write"}, scanned |-> TRUE] :
      d \in Dupes(rs) }

\* the cache file is there and decodes
cacheHit(cachePath, ch) ==
    cachePath # "" /\ ch.present /\ Unmarshal(ch.text).err = NoErr

\* return cachedDupes, nil
loaded(ch) ==
    [panic |-> FALSE, dupes |-> Unmarshal(ch.text).v, err |-> NoErr,
     cache |-> ch, out |-> {"Loaded"}, ops |-> {"read"}, scanned |-> FALSE]

\* Mutant: the cache file is not consulted.
getDupesCacheIgnored(rs, cachePath, ch) == scanAndSave(rs, cachePath, ch)

\* Mutant: a cache file that does not decode is an error.
getDupesInvalidCacheFails(rs, cachePath, ch) ==
    IF cacheHit(cachePath, ch) THEN { loaded(ch) }
    ELSE IF cachePath # "" /\ ch.present
    THEN { [panic |-> FALSE, dupes |-> <<>>, err |-> Unmarshal(ch.text).err,
            cache |-> ch, out |-> {}, ops |-> {"read"}, scanned |-> FALSE] }
    ELSE scanAndSave(rs, cachePath, ch)

\* func getDupesAndPrintSummary(roots []string, cachePath string): the
\* outcomes of a call when the cache file is ch.  Reading the cache file
\* fails only when it is absent.  Below a scanned root the cache file is a
\* file of its own content, in no group, and is left out of pending.
getDupesAndPrintSummary(rs, cachePath, ch) ==
    IF cacheHit(cachePath, ch) THEN { loaded(ch) }
    ELSE scanAndSave(rs, cachePath, ch)

\* Mutant of remove: dryRun is not tested.
removeNoDryRun(disk, dryRun, symlink, file, keep) ==
    LET gone == [exists |-> disk.exists \ {file},
                 links |-> [l \in DOMAIN disk.links \ {file} |-> disk.links[l]]]
    IN  IF symlink THEN [gone EXCEPT !.links = Put(@, file, keep)] ELSE gone

\* func remove(dryRun bool, symlink bool, file string, keep string) on the
\* disk [exists, links]: os.Remove fails only where there is nothing to
\* remove, and os.Symlink(keep, file) finds no file in its way.
remove(disk, dryRun, symlink, file, keep) ==
    IF dryRun THEN disk
    ELSE LET gone == [exists |-> disk.exists \ {file},
                      links |-> [l \in DOMAIN disk.links \ {file} |->
                                    disk.links[l]]]
         IN  IF symlink THEN [gone EXCEPT !.links = Put(@, file, keep)]
             ELSE gone

\* Every call of remove acts on its own file, so the calls are applied in
\* any one order.
RECURSIVE removeAll(_, _, _)
removeAll(disk, a, calls) ==
    IF calls = {} THEN disk
    ELSE LET c == CHOOSE c \in calls : TRUE IN
         removeAll(remove(disk, a.dryRun, a.symlink, c.file, c.keep), a,
                   calls \ {c})

\* p[n] = struct{}{} for the names prefer matches
preferred(g, a) == { n \in Range(g.Names) : n \in a.prefer.m }

\* o[n] = struct{}{} for the names over, and not prefer, matches
overMatched(g, a) ==
    { n \in Range(g.Names) : n \notin a.prefer.m /\ ~a.over.nil /\ n \in a.over.m }

\* the calls remove(dryRun, symlink, n, keep) for n in rm
callsOf(gi, rm, keep) == { [g |-> gi, file |-> n, keep |-> keep] : n \in rm }

\* Mutant of overCalls: without the test len(o) > 0.
overCallsNoOverTest(gi, a, p, o, keep) ==
    callsOf(gi, IF a.invert THEN p ELSE o, keep)

\* the branch over != nil
overCalls(gi, a, p, o, keep) ==
    IF Cardinality(o) > 0
    THEN callsOf(gi, IF a.invert THEN p ELSE o, keep)
    ELSE {}

\* Mutant of preferOnlyCalls: without the test len(p) < len(dupe.Names).
preferOnlyCallsAlways(g, gi, a, p, source) ==
    callsOf(gi, { n \in Range(g.Names) :
                    \/ n \in p /\ a.invert
                    \/ n \notin p /\ ~a.invert }, source)

\* the branch over == nil
preferOnlyCalls(g, gi, a, p, source) ==
    IF Cardinality(p) < Len(g.Names)
    THEN callsOf(gi, { n \in Range(g.Names) :
                         \/ n \in p /\ a.invert
                         \/ n \notin p /\ ~a.invert }, source)
    ELSE {}

\* Mutant of groupCalls: without the test len(p) > 0; keep and source are
\* then the empty string.
groupCallsNoPreferTest(g, gi, a) ==
    LET p == preferred(g, a)
        o == overMatched(g, a)
    IN  { IF ~a.over.nil THEN overCalls(gi, a, p, o, keep)
          ELSE preferOnlyCalls(g, gi, a, p, keep) :
          keep \in IF p = {} THEN {NoPath} ELSE p }

\* The body of for _, dupe := range dupes in runAutomatic: the sets of calls
\* of remove it can make for group g, one set per value of keep and of
\* source (the iteration over the map p leaves in either any element of p).
groupCalls(g, gi, a) ==
    LET p == preferred(g, a)
        o == overMatched(g, a)
    IN  IF Cardinality(p) > 0
        THEN { IF ~a.over.nil THEN overCalls(gi, a, p, o, keep)
               ELSE preferOnlyCalls(g, gi, a, p, keep) : keep \in p }
        ELSE { {} }

\* the calls of remove of the whole loop, from group gi on
RECURSIVE loopCalls(_, _, _)
loopCalls(gs, gi, a) ==
    IF gi > Len(gs) THEN { {} }
    ELSE { c \cup rest : c \in groupCalls(gs[gi], gi, a),
                         rest \in loopCalls(gs, gi + 1, a) }

ArgChoices(cachePath) ==
    { [cachePath |-> cachePath, dryRun |-> d, prefer |-> p, over |-> o,
       invert |-> iv, symlink |-> sl] :
        d \in BOOLEAN, p \in PreferChoices, o \in OverChoices,
        iv \in BOOLEAN, sl \in BOOLEAN }

\* func runAutomatic(dryRun, roots, prefer, over, invert, symlink, cachePath)
\* called with cachePath and with the other arguments from argChoices
runAutomaticCall(cachePath, argChoices) ==
    /\ \E r \in getDupesAndPrintSummary(roots, cachePath, cache) :
         \E a \in argChoices :
             /\ args' = a
             /\ cache0' = cache
             /\ cache' = r.cache
             /\ out' = r.out
             /\ cacheOps' = r.ops
             /\ scanned' = r.scanned
             /\ found' = r.dupes
             /\ mainErr' = r.err
             /\ firstScan' = IF r.scanned /\ ~r.panic /\ ~firstScan.done
                             THEN [done |-> TRUE, groups |-> r.dupes]
                             ELSE firstScan
             /\ IF r.panic
                THEN /\ pc' = "panic"
                     /\ removeCalls' = {}
                     /\ UNCHANGED <<exists, links>>
                ELSE IF r.err # NoErr
                THEN /\ pc' = "exit"
                     /\ removeCalls' = {}
                     /\ UNCHANGED <<exists, links>>
                ELSE \E calls \in loopCalls(r.dupes, 1, a) :
                       LET disk == removeAll([exists |-> exists, links |-> links],
                                             a, calls)
                       IN  /\ removeCalls' = calls
                           /\ exists' = disk.exists
                           /\ links' = disk.links
                           /\ pc' = "exit"
    /\ runs' = runs + 1
    /\ existsAtCall' = exists
    /\ UNCHANGED <<content, unreadable, roots, ri, pending, todo, files, i,
                   dupes, err, hashCalls, hres, cbVars, interVars>>

\* one invocation, with any arguments
runAutomatic ==
    /\ pc = "main"
    /\ \E cachePath \in CachePaths :
          runAutomaticCall(cachePath, ArgChoices(cachePath))

\* Trees of readable files of 5 and 4100 bytes.
MainTrees == { t \in Trees : t.u = {} /\ \A p \in Paths : t.idx[p] \in 3..5 }

\* The cache file before the run: none, an empty file, a truncated text, or
\* the text an earlier run wrote.
CachedChoices ==
    { <<>>,
      <<[Size |-> 5, Names |-> <<1, 2, 3>>], [Size |-> 4100, Names |-> <<4, 5>>]>> }

CacheChoices ==
    { [present |-> FALSE, text |-> <<>>],
      [present |-> TRUE, text |-> <<>>],
      [present |-> TRUE, text |-> <<Tok("[", 0), Tok("{", 0)>>] } \cup
    { [present |-> TRUE, text |-> MarshalIndent(gs)] : gs \in CachedChoices }

InitMain ==
    /\ \E t \in MainTrees :
          /\ content = [p \in Paths |-> ContentSeq[t.idx[p]]]
          /\ unreadable = t.u
    /\ ri = 1 /\ pending = EmptyMap /\ todo = {} /\ files = EmptyMap /\ i = 0
    /\ dupes = <<>> /\ err = NoErr /\ hashCalls = EmptyBag /\ hres = <<>>
    /\ cbCalls = <<>> /\ shadow = EmptyMap /\ progressCb = TRUE
    /\ exists = Paths /\ links = EmptyMap /\ found = <<>> /\ mainErr = NoErr
    /\ out = {} /\ cacheOps = {} /\ scanned = FALSE /\ removeCalls = {}
    /\ args = NoArgs
    /\ NoRuns
    /\ cache \in CacheChoices
    /\ cache0 = cache
    /\ roots = <<"/data">>
    /\ pc = "main"

NextMain == runAutomatic

SpecMain == InitMain /\ [][NextMain]_vars

----------------------------------------------------------------------------
\* The program run again and again on the same roots with the same --cache

MaxRuns == 2

RunsCachePath == "/tmp/cache.json"

\* the arguments of the runs: not dry, no symlinks, any prefer, over, invert
RunArgChoices ==
    { a \in ArgChoices(RunsCachePath) : ~a.dryRun /\ ~a.symlink }

\* the next invocation of the program, on the disk and the cache file the
\* invocations before it left
runAutomaticAgain ==
    /\ pc \in {"main", "exit"}
    /\ runs < MaxRuns
    /\ runAutomaticCall(RunsCachePath, RunArgChoices)

InitRuns ==
    /\ InitMain
    /\ ~cache.present

NextRuns == runAutomaticAgain

SpecRuns == InitRuns /\ [][NextRuns]_vars

----------------------------------------------------------------------------
\* main.go: getInput and runInteractive.  A line of input is the sequence
\* of its characters, the final "\n" included.

MaxPrompts == 2

Digits == <<"0", "1", "2", "3", "4", "5", "6", "7", "8", "9">>

Nl == "\n"

\* the lines typed on stdin
InputLines ==
    { <<"f", Nl>>, <<"F", Nl>>, <<Nl>>, <<" ", "f", " ", Nl>>,
      <<"a", Nl>>, <<"A", Nl>>,
      <<"0", Nl>>, <<"1", Nl>>, <<"2", Nl>>, <<"3", Nl>>, <<"4", Nl>>,
      <<"+", "2", Nl>>, <<"0", "3", Nl>>, <<"-", "1", Nl>>,
      <<"+", Nl>>, <<"x", Nl>>, <<"2", "x", Nl>>,
      <<"4", "2", "9", "4", "9", "6", "7", "2", "9", "8", Nl>> }

IsSpace(ch) == ch \in {" ", "\n", "\t", "\r"}

\* strings.TrimSpace
RECURSIVE TrimSpace(_)
TrimSpace(v) ==
    IF v = <<>> THEN v
    ELSE IF IsSpace(Head(v)) THEN TrimSpace(Tail(v))
    ELSE IF IsSpace(v[Len(v)]) THEN TrimSpace(SubSeq(v, 1, Len(v) - 1))
    ELSE v

\* strings.ToLower, on the letters of InputLines
ToLower(v) ==
    [k \in DOMAIN v |-> CASE v[k] = "F" -> "f"
                          [] v[k] = "A" -> "a"
                          [] v[k] = "X" -> "x"
                          [] OTHER -> v[k]]

IsDigit(ch) == \E d \in DOMAIN Digits : Digits[d] = ch

DigitVal(ch) == (CHOOSE d \in DOMAIN Digits : Digits[d] = ch) - 1

\* the largest int32
MaxInt32 == 2147483647

\* the value of a string of digits, or -1 when it is above MaxInt32
RECURSIVE Decimal(_, _)
Decimal(v, acc) ==
    IF v = <<>> THEN acc
    ELSE IF acc > (MaxInt32 - DigitVal(Head(v))) \div 10 THEN -1
    ELSE Decimal(Tail(v), 10 * acc + DigitVal(Head(v)))

\* strconv.ParseInt(v, 10, 32).  "-2147483648" is given the range error of
\* the values below it; the validator rejects both alike.
ParseInt(v) ==
    LET signed == v # <<>> /\ Head(v) \in {"+", "-"}
        ds == IF signed THEN Tail(v) ELSE v
    IN  IF ds = <<>> \/ \E k \in DOMAIN ds : ~IsDigit(ds[k])
        THEN [err |-> "syntax", k |-> 0]
        ELSE IF Decimal(ds, 0) = -1
        THEN [err |-> "range", k |-> 0]
        ELSE [err |-> NoErr,
              k |-> IF signed /\ Head(v) = "-" THEN 0 - Decimal(ds, 0)
                    ELSE Decimal(ds, 0)]

\* Mutant of validator: keep = int(k).
validatorNoMinusOne(v, names, kp) ==
    IF ToLower(v) \in {<<"f">>, <<>>} THEN { [ok |-> TRUE, keep |-> 0] }
    ELSE IF ToLower(v) = <<"a">> THEN { [ok |-> TRUE, keep |-> kp] }
    ELSE { IF r.err # NoErr THEN [ok |-> FALSE, keep |-> kp]
           ELSE IF r.k < 1 \/ r.k > Len(names) THEN [ok |-> FALSE, keep |-> kp]
           ELSE [ok |-> TRUE, keep |-> IF r.k < Len(names) THEN r.k ELSE 0] :
           r \in {ParseInt(v)} }

\* The validator runInteractive gives getInput for a group of names, keep
\* being kp before the call: the set of its one outcome, [ok, keep].
validator(v, names, kp) ==
    IF ToLower(v) \in {<<"f">>, <<>>} THEN { [ok |-> TRUE, keep |-> 0] }
    ELSE IF ToLower(v) = <<"a">> THEN { [ok |-> TRUE, keep |-> kp] }
    ELSE { IF r.err # NoErr THEN [ok |-> FALSE, keep |-> kp]
           ELSE IF r.k < 1 \/ r.k > Len(names) THEN [ok |-> FALSE, keep |-> kp]
           ELSE [ok |-> TRUE, keep |-> r.k - 1] :
           r \in {ParseInt(v)} }

\* for i, n := range dupe.Names { if i != keep { remove(...) } }
keepCalls(gi, names, kp) ==
    IF kp >= 0
    THEN callsOf(gi, { names[j] : j \in DOMAIN names \ {kp + 1} }, names[kp + 1])
    ELSE {}

\* runInteractive up to the review of the groups; roots is not empty.
runInteractive ==
    /\ pc = "main"
    /\ \E cachePath \in CachePaths, dryRun \in BOOLEAN :
         \E r \in getDupesAndPrintSummary(roots, cachePath, cache) :
             /\ args' = [NoArgs EXCEPT !.cachePath = cachePath,
                                       !.dryRun = dryRun]
             /\ cache0' = cache
             /\ cache' = r.cache
             /\ out' = r.out
             /\ cacheOps' = r.ops
             /\ scanned' = r.scanned
             /\ found' = r.dupes
             /\ mainErr' = r.err
             /\ firstScan' = IF r.scanned /\ ~r.panic /\ ~firstScan.done
                             THEN [done |-> TRUE, groups |-> r.dupes]
                             ELSE firstScan
             /\ pc' = IF r.panic THEN "panic"
                      ELSE IF r.err # NoErr \/ r.dupes = <<>> THEN "exit"
                      ELSE "review"
    /\ runs' = runs + 1
    /\ existsAtCall' = exists
    /\ removeCalls' = {}
    /\ UNCHANGED <<content, unreadable, roots, ri, pending, todo, files, i,
                   dupes, err, hashCalls, hres, cbVars, exists, links,
                   interVars>>

\* One turn of the loop of getInput for the group dupes[curGroup]: the
\* prompt, a line read, the validator; and, when the validator accepts, the
\* calls of remove and the step to the next group.
Answer(l) ==
    /\ pc = "review"
    /\ curLine' = l
    /\ \E r \in validator(TrimSpace(l), found[curGroup + 1].Names,
                          IF prompts = 0 THEN -1 ELSE curKeep) :
          /\ curKeep' = r.keep
          /\ IF r.ok
             THEN \E disk \in { removeAll([exists |-> exists, links |-> links],
                                          [dryRun |-> args.dryRun,
                                           symlink |-> FALSE],
                                          keepCalls(curGroup + 1,
                                                    found[curGroup + 1].Names,
                                                    r.keep)) } :
                    /\ removeCalls' = removeCalls \cup
                          keepCalls(curGroup + 1, found[curGroup + 1].Names,
                                    r.keep)
                    /\ exists' = disk.exists
                    /\ links' = disk.links
                    /\ curGroup' = curGroup + 1
                    /\ prompts' = 0
                    /\ pc' = IF curGroup + 1 < Len(found) THEN "review"
                             ELSE "exit"
             ELSE /\ prompts' = IF prompts < MaxPrompts THEN prompts + 1
                                ELSE prompts
                  /\ UNCHANGED <<removeCalls, exists, links, curGroup, pc>>
    /\ UNCHANGED <<content, unreadable, roots, ri, pending, todo, files, i,
                   dupes, err, hashCalls, hres, cbVars, cache, cache0, args,
                   found, mainErr, out, cacheOps, scanned, runVars>>

\* reader.ReadString returns an error (end of input): log.Fatalln(err)
EndOfInput ==
    /\ pc = "review"
    /\ pc' = "fatal"
    /\ UNCHANGED <<content, unreadable, roots, ri, pending, todo, files, i,
                   dupes, err, hashCalls, hres, cbVars, exists, links, cache,
                   cache0, args, found, mainErr, out, cacheOps, scanned,
                   removeCalls, runVars, interVars>>

\* the largest group reviewed
MaxGroup == 3

\* as InitMain, with no more than MaxGroup files of the same content, and
\* with no cache file or the cache file an earlier run wrote
InitInteractive ==
    /\ InitMain
    /\ cache.present => Unmarshal(cache.text).err = NoErr
    /\ \A p \in Paths :
          Cardinality({ q \in Paths : content[q] = content[p] }) <= MaxGroup

NextInteractive ==
    \/ runInteractive
    \/ \E l \in InputLines : Answer(l)
    \/ EndOfInput

SpecInteractive == InitInteractive /\ [][NextInteractive]_vars

----------------------------------------------------------------------------
\* Vocabulary of the properties

Returned == pc = "done"
Enumerated == DOMAIN pending
Readable == Paths \ unreadable
GroupsOf(p) == { k \in 1..Len(dupes) : p \in Range(dupes[k].Names) }
Grouped == UNION { Range(dupes[k].Names) : k \in 1..Len(dupes) }
Occurrences(names, p) == Cardinality({ k \in 1..Len(names) : names[k] = p })
\* the other enumerated files of the same size and the same bytes
Twins(p) == { q \in Enumerated \ {p} : content[q] = content[p] }
SameSize(p) == { q \in Enumerated \ {p} : pending[q] = pending[p] }
Prefix(p) == Read(content[p], initialBlocksize)
Reclaimable(g) == g.Size * (Len(g.Names) - 1)
CallsOn(p) == { c \in BagToSet(hashCalls) : c.path = p }
FullCalls == { c \in BagToSet(hashCalls) : c.blocksize = -1 }
FailedCalls == { c \in BagToSet(hashCalls) : c.err # NoErr }
\* a first-pass call on p that returned a digest
PrefixHashed(p) ==
    \E c \in CallsOn(p) :
        c.blocksize = min(initialBlocksize, pending[p]) /\ c.err = NoErr
MissingRoot == \E k \in 1..Len(roots) : roots[k] \notin ExistingDirs

----------------------------------------------------------------------------
\* C1 Completeness: when every file is readable, whatever the order of the
\* loop, a file with a twin (same size, same bytes) is in exactly one
\* returned group, once, and a file without a twin is in none.
C1_Completeness ==
    (Returned /\ unreadable = {}) =>
        \A p \in Enumerated :
            /\ Twins(p) # {} =>
                  /\ Cardinality(GroupsOf(p)) = 1
                  /\ \A k \in GroupsOf(p) : Occurrences(dupes[k].Names, p) = 1
            /\ Twins(p) = {} => GroupsOf(p) = {}

\* a run over readable files, three of them identical and one without twin
\* but of the same size as another file, that returned a group
C1_Witness ==
    /\ Returned /\ unreadable = {} /\ dupes # <<>>
    /\ \E p \in Enumerated : Twins(p) = {} /\ SameSize(p) # {}
    /\ \E p \in Enumerated : Cardinality(Twins(p)) = 2

\* C2 Group homogeneity: every member of a returned group was enumerated
\* with the group's Size, all members have the same full digest, and two
\* files of one size that agree on the first 4096 bytes but differ later
\* are never in one group.
C2_GroupHomogeneity ==
    Returned =>
        \A k \in 1..Len(dupes) : \A p, q \in Range(dupes[k].Names) :
            /\ p \in Enumerated /\ pending[p] = dupes[k].Size
            /\ Size(content[p]) = dupes[k].Size
            /\ md5Sum(content[p]) = md5Sum(content[q])
            /\ ~(Prefix(p) = Prefix(q) /\ content[p] # content[q])

\* a returned group of files longer than the block size, beside a readable
\* file of that size with the same first block and another tail
C2_Witness ==
    /\ Returned
    /\ \E p \in Grouped, q \in Readable \ Grouped :
          /\ pending[p] = pending[q] /\ pending[p] > initialBlocksize
          /\ Prefix(p) = Prefix(q) /\ content[p] # content[q]
          /\ PrefixHashed(q)

\* C3 Duplicates among the readable files are reported: for every set of
\* unreadable files and every order, two readable files of the same size and
\* bytes are returned in one group.
C3_ReadableDuplicatesReported ==
    Returned =>
        \A p, q \in Readable :
            (p # q /\ content[p] = content[q]) =>
                \E k \in 1..Len(dupes) : {p, q} \subseteq Range(dupes[k].Names)

\* C4 A file whose hash cannot be computed is in no returned group, and a
\* hash failure does not abort Dupes: no panic, a nil error, and the loop
\* visits every enumerated file before Dupes returns.
C4_HashFailureSkipsFile ==
    /\ Returned =>
          \A p \in Grouped : p \in Readable /\ CallsOn(p) \cap FailedCalls = {}
    /\ FailedCalls # {} => pc \in {"loop", "done"} /\ err = NoErr
    /\ Returned => todo = {} /\ i = Cardinality(Enumerated)

\* a completed run in which the hash of a file with a twin failed and a
\* group was still returned
C4_Witness ==
    /\ Returned /\ FailedCalls # {} /\ dupes # <<>>
    /\ \E p \in unreadable : Twins(p) # {} /\ CallsOn(p) # {}

\* C5 Sort order: a group that precedes another has at least its
\* reclaimable size, Size * (len(Names) - 1).
C5_SortByReclaimable ==
    Returned =>
        \A j, k \in 1..Len(dupes) :
            j < k => Reclaimable(dupes[j]) >= Reclaimable(dupes[k])

\* C6 A root that does not exist: Dupes returns a non-nil error and no
\* groups; it neither returns normally nor crashes.
C6_MissingRootIsError ==
    MissingRoot =>
        /\ pc # "panic"
        /\ Returned => err # NoErr /\ dupes = <<>>

\* C7 Minimality: every returned group has at least two members, pairwise
\* distinct, for every order and every pattern of hash failures.
C7_Minimality ==
    Returned =>
        \A k \in 1..Len(dupes) :
            /\ Len(dupes[k].Names) >= 2
            /\ \A p \in Range(dupes[k].Names) :
                  Occurrences(dupes[k].Names, p) = 1

\* a run with a failed hash that returns a group of three
C7_Witness ==
    /\ Returned /\ FailedCalls # {}
    /\ \E k \in 1..Len(dupes) : Len(dupes[k].Names) = 3

\* C8 hash(path, limit) on a readable file: with limit > 0 and a file shorter
\* than limit it succeeds with the digest of the whole file; with limit <= 0
\* it returns the digest of the whole file.
C8_HashShortFile ==
    (hres # <<>> /\ hres.path \in Readable) =>
        /\ (hres.blocksize > 0 /\ Size(content[hres.path]) < hres.blocksize) =>
              hres.result = [sum |-> md5Sum(content[hres.path]), err |-> NoErr]
        /\ hres.blocksize <= 0 =>
              hres.result = [sum |-> md5Sum(content[hres.path]), err |-> NoErr]

\* C9 A file whose size no other enumerated file has is never passed to
\* hash, with any blocksize.
C9_UniqueSizeNeverHashed ==
    \A p \in Enumerated : SameSize(p) = {} => CallsOn(p) = {}

\* a completed run with a file of unique size beside files that were hashed
C9_Witness ==
    /\ Returned /\ FullCalls # {}
    /\ \E p \in Enumerated : SameSize(p) = {}

\* C10 A file is fully hashed only if another file of its size produced the
\* same first-pass digest; when no two files of one size agree on the first
\* block, no full hash is computed and no group is returned.
C10_FullHashNeedsPrefixCollision ==
    /\ \A c \in FullCalls :
          /\ PrefixHashed(c.path)
          /\ \E q \in SameSize(c.path) :
                /\ PrefixHashed(q)
                /\ md5Sum(Prefix(q)) = md5Sum(Prefix(c.path))
    /\ (Returned /\ \A p \in Enumerated : \A q \in SameSize(p) :
                        Prefix(p) # Prefix(q)) =>
          FullCalls = {} /\ dupes = <<>>

\* readable files of one size with different first blocks were both hashed
\* on the first pass, and the run made no full hash
C10_Witness ==
    /\ Returned /\ FullCalls = {}
    /\ \E p \in Readable : \E q \in SameSize(p) \cap Readable :
          Prefix(p) # Prefix(q) /\ PrefixHashed(p) /\ PrefixHashed(q)
\* C11 Within one Dupes call the current argument of the progress callback
\* never decreases from one invocation to the next, and the total argument
\* is the number of enumerated files in every invocation.
C11_ProgressMonotone ==
    /\ \A j, k \in 1..Len(cbCalls) : j < k => cbCalls[j].cur <= cbCalls[k].cur
    /\ \A k \in 1..Len(cbCalls) : cbCalls[k].outof = Cardinality(Enumerated)

\* a completed run whose callback was invoked once per file
C11_Witness ==
    /\ Returned /\ progressCb
    /\ Len(cbCalls) = NumFiles /\ cbCalls[NumFiles].cur > cbCalls[1].cur

\* C12 The callback is advisory: after every iteration the buckets are those
\* of the run with a nil progressCb over the same files, readability and
\* order, and the groups returned are groups that run can return.
C12_CallbackAdvisory ==
    /\ files = shadow
    /\ Returned => dupes \in sortedDupes(collect(shadow))

\* a run with a callback, invoked for every file, that returned a group
C12_Witness ==
    /\ Returned /\ progressCb /\ Len(cbCalls) = NumFiles /\ dupes # <<>>
    /\ unreadable # {}
----------------------------------------------------------------------------
\* Vocabulary of the properties of main.go

\* runAutomatic has returned
Ran == pc = "exit"

CacheValid(ch) == ch.present /\ Unmarshal(ch.text).err = NoErr

\* the files remove was called on, in group gi and in all
RemovedIn(gi) == { c.file : c \in { c \in removeCalls : c.g = gi } }
Removed == { c.file : c \in removeCalls }

\* the names of group gi that --prefer matches
Preferred(gi) == { n \in Range(found[gi].Names) : n \in args.prefer.m }

\* The set of files below the roots: the data files, and the cache file
\* when cachePath lies below a root.
FilesUnderRoots(ex, ch, cachePath) ==
    [data |-> ex, cacheFile |-> UnderRoot(cachePath) /\ ch.present]

\* C13: cache hit.  When the file at cachePath decodes as a list of groups
\* (here: it holds the encoding of a list gs), getDupesAndPrintSummary
\* returns exactly gs, does not scan the roots (no call of Dupes, no
\* "Indexing..."), and leaves the cache file as it was.
C13_CacheHit ==
    (Ran /\ args.cachePath # "" /\ CacheValid(cache0)) =>
        /\ \A gs \in CachedChoices : cache0.text = MarshalIndent(gs) => found = gs
        /\ found = Unmarshal(cache0.text).v
        /\ ~scanned
        /\ "Indexing..." \notin out
        /\ cache = cache0
        /\ mainErr = NoErr

C13_Witness ==
    /\ Ran /\ args.cachePath # "" /\ CacheValid(cache0)
    /\ Len(found) = 2 /\ found[1].Names = <<1, 2, 3>>
    /\ "Loaded" \in out

\* C14: cache creation.  When cachePath is not empty and there is no cache
\* file, a run, dry or not, scans, and writes the groups to cachePath: the
\* cache file then decodes to exactly the groups the run returned.
C14_CacheCreation ==
    (Ran /\ args.cachePath # "" /\ ~cache0.present) =>
        /\ scanned
        /\ cache.present
        /\ Unmarshal(cache.text) = [err |-> NoErr, v |-> found]

C14_Witness ==
    /\ Ran /\ args.cachePath # "" /\ ~cache0.present /\ args.dryRun
    /\ Len(found) = 2 /\ cache.present

\* C15: invalid cache.  When the file at cachePath does not decode, the run
\* returns no error, scans, and overwrites the cache file with the encoding
\* of the groups it computed, which decodes.
C15_InvalidCache ==
    (Ran /\ args.cachePath # "" /\ cache0.present /\ ~CacheValid(cache0)) =>
        /\ mainErr = NoErr
        /\ scanned
        /\ cache.present /\ cache.text = MarshalIndent(found)
        /\ Unmarshal(cache.text) = [err |-> NoErr, v |-> found]

C15_Witness ==
    /\ Ran /\ args.cachePath # "" /\ cache0.present
    /\ cache0.text # <<>> /\ ~CacheValid(cache0)
    /\ found # <<>> /\ CacheValid(cache)

\* C16: no cache.  When cachePath is empty, getDupesAndPrintSummary scans
\* the roots and neither reads, creates nor modifies a cache file.
C16_NoCache ==
    (Ran /\ args.cachePath = "") =>
        /\ scanned
        /\ cacheOps = {}
        /\ cache = cache0

C16_Witness ==
    Ran /\ args.cachePath = "" /\ CacheValid(cache0) /\ scanned /\ found # <<>>

\* C17, as stated: with dryRun true no file is deleted, no symlink is
\* created, and the set of files below the roots is unchanged by the run.
C17_DryRunFilesUnchanged ==
    (Ran /\ args.dryRun) =>
        /\ exists = Paths
        /\ links = EmptyMap
        /\ FilesUnderRoots(exists, cache, args.cachePath) =
              FilesUnderRoots(Paths, cache0, args.cachePath)

\* C17, amended: with dryRun true no file is deleted and no symlink is
\* created, for every prefer, over, invert and symlink; the set of files
\* below the roots is unchanged by the run except for the cache file, which
\* the run creates when cachePath is not empty and no cache file was there.
C17_DryRunNoRemoval ==
    (Ran /\ args.dryRun) =>
        /\ exists = Paths
        /\ links = EmptyMap
        /\ \/ FilesUnderRoots(exists, cache, args.cachePath) =
                 FilesUnderRoots(Paths, cache0, args.cachePath)
           \/ /\ args.cachePath # "" /\ ~cache0.present
              /\ FilesUnderRoots(exists, cache, args.cachePath) =
                    [data |-> Paths, cacheFile |-> TRUE]

C17_Witness ==
    /\ Ran /\ args.dryRun /\ args.symlink /\ removeCalls # {}
    /\ UnderRoot(args.cachePath) /\ ~cache0.present /\ cache.present

\* C18: with --prefer and --over and no --invert, a file is removed only if
\* it matches --over, does not match --prefer, and its group has a name
\* matching --prefer; so files matching --prefer stay, and a group with no
\* --prefer match is left untouched.
C18_PreferOver ==
    (Ran /\ ~args.over.nil /\ ~args.invert) =>
        /\ \A c \in removeCalls :
              /\ c.file \in args.over.m
              /\ c.file \notin args.prefer.m
              /\ Preferred(c.g) # {}
        /\ \A gi \in 1..Len(found) : Preferred(gi) = {} => RemovedIn(gi) = {}
        /\ ~args.dryRun => /\ Paths \ exists = Removed
                           /\ \A n \in Paths : n \in args.prefer.m => n \in exists

C18_Witness ==
    /\ Ran /\ ~args.over.nil /\ ~args.invert /\ ~args.dryRun
    /\ removeCalls # {}
    /\ \E gi \in 1..Len(found) :
          /\ Preferred(gi) = {}
          /\ \E n \in Range(found[gi].Names) : n \in args.over.m

\* C19: with --prefer and no --over, in a group where some but not all names
\* match --prefer exactly the names that do not match are removed (with
\* --invert: exactly those that match); a group where no name or every name
\* matches is left untouched.
C19_PreferOnly ==
    (Ran /\ args.over.nil) =>
        /\ \A gi \in 1..Len(found) :
              RemovedIn(gi) =
                 IF Preferred(gi) # {} /\ Preferred(gi) # Range(found[gi].Names)
                 THEN IF args.invert THEN Preferred(gi)
                      ELSE Range(found[gi].Names) \ Preferred(gi)
                 ELSE {}
        /\ ~args.dryRun => Paths \ exists = Removed

C19_Witness ==
    /\ Ran /\ args.over.nil /\ args.invert /\ ~args.dryRun
    /\ \E gi \in 1..Len(found) :
          /\ Preferred(gi) # {} /\ Preferred(gi) # Range(found[gi].Names)
          /\ RemovedIn(gi) = Preferred(gi)
    /\ \E gi \in 1..Len(found) : Preferred(gi) = {} /\ RemovedIn(gi) = {}

\* C20: in a run that is not dry, with symlink true, every removed file is
\* replaced by a symbolic link to a file of the same group that the run
\* retains, for every prefer, over and invert.
C20_SymlinkToRetained ==
    (Ran /\ ~args.dryRun /\ args.symlink) =>
        \A c \in removeCalls :
            /\ c.file \in DOMAIN links
            /\ links[c.file] \in Range(found[c.g].Names)
            /\ links[c.file] \notin Removed
            /\ links[c.file] \in exists

----------------------------------------------------------------------------
\* Vocabulary of the properties of the buckets

\* the number of places of files that hold p
InUnhashed(p) == { size \in DOMAIN files : files[size].Unhashed = p }
InSlot(p) ==
    { <<size, sum>> \in UNION { {size} \X DOMAIN files[size].FirstPassHashes :
                                size \in DOMAIN files } :
        files[size].FirstPassHashes[sum] = p }
RECURSIVE SumOver(_, _)
SumOver(S, f) ==
    IF S = {} THEN 0
    ELSE LET x == CHOOSE x \in S : TRUE IN f[x] + SumOver(S \ {x}, f)
FullLists ==
    UNION { {size} \X DOMAIN files[size].FullHashes : size \in DOMAIN files }
InFull(p) ==
    SumOver(FullLists,
            [l \in FullLists |-> Occurrences(files[l[1]].FullHashes[l[2]], p)])
Places(p) == Cardinality(InUnhashed(p)) + Cardinality(InSlot(p)) + InFull(p)

\* the files the loop has gone through
Processed == IF pc \in {"loop", "done"} THEN Enumerated \ todo ELSE {}

\* every processed file is in one place, and that in the bucket of its size
PlacedOnce ==
    \A p \in Processed :
        /\ Places(p) = 1
        /\ InUnhashed(p) \subseteq {pending[p]}
        /\ \A l \in InSlot(p) : l[1] = pending[p]
        /\ \A l \in FullLists :
              p \in Range(files[l[1]].FullHashes[l[2]]) => l[1] = pending[p]

\* the groups as sets: a Size and a set of names
GroupSets == { [Size |-> dupes[k].Size, Names |-> Range(dupes[k].Names)] :
               k \in 1..Len(dupes) }

\* the classes of two or more enumerated files of equal content: a function
\* of the files alone, not of the order of the loop
ContentClasses ==
    { [Size |-> pending[p], Names |-> Twins(p) \cup {p}] :
      p \in { q \in Enumerated : Twins(q) # {} } }

\* C22: a hash call that failed on a file is the only hash call Dupes makes
\* on that file in the run (failures are never retried).
C22_FailedHashNotRetried ==
    \A c \in FailedCalls :
        /\ CopiesIn(c, hashCalls) = 1
        /\ CallsOn(c.path) = {c}

\* C23: every step of the loop fully hashes only files that were not fully
\* hashed before: the file the step processes, or the file held in Unhashed
\* or in a slot that was not yet resolved.  So a file is fully hashed at most once, and a
\* file arriving at a resolved slot is the only one hashed in full.
C23_FullHashAtMostOnce ==
    [][\A c \in { d \in BagToSet(hashCalls') :
                    /\ d.blocksize = -1
                    /\ CopiesIn(d, hashCalls') > CopiesIn(d, hashCalls) } :
          /\ CopiesIn(c, hashCalls') = 1
          /\ \A d \in BagToSet(hashCalls') :
                (d.blocksize = -1 /\ d.path = c.path) => d = c
          /\ \/ c.path \in todo \ todo'
             \/ /\ InSlot(c.path) # {} \/ InUnhashed(c.path) # {}
                /\ \E t \in todo \ todo' : pending[t] = pending[c.path]
      ]_vars

C23_Witness ==
    /\ Returned
    /\ \E k \in 1..Len(dupes) :
          /\ Len(dupes[k].Names) = 3
          /\ \A p \in Range(dupes[k].Names) :
                \E c \in FullCalls : c.path = p /\ CopiesIn(c, hashCalls) = 1
    /\ \E p \in Enumerated : PrefixHashed(p) /\ ~\E c \in FullCalls : c.path = p

\* C24: order independence.  When every enumerated file is readable, the
\* groups Dupes returns, each taken as a Size and a set of names, are the
\* classes of equal content, which do not depend on the order of the loop;
\* no group is returned twice, no name is repeated, and the groups come in
\* the order of the sort, so that only names inside a group and tied groups
\* can change places.
C24_OrderIndependence ==
    (Returned /\ unreadable = {}) =>
        /\ GroupSets = ContentClasses
        /\ Len(dupes) = Cardinality(ContentClasses)
        /\ \A k \in 1..Len(dupes) :
              Len(dupes[k].Names) = Cardinality(Range(dupes[k].Names))
        /\ \A j, k \in 1..Len(dupes) : j < k => ~Less(dupes[j], dupes[k])

C24_Witness ==
    /\ Returned /\ unreadable = {} /\ Len(dupes) = 2
    /\ Len(dupes[1].Names) = 3
    /\ dupes[1].Names[1] > dupes[1].Names[2]

\* C28: bucket state.  When every file is readable, after each processed
\* file every file processed so far is in exactly one place, in the bucket of
\* its size: Unhashed, a FirstPassHashes slot, or one FullHashes list; and
\* a FirstPassHashes slot marked resolved ("") never holds a path again.
C28_BucketState ==
    [][unreadable = {} =>
          /\ PlacedOnce'
          /\ \A size \in DOMAIN files :
                \A sum \in DOMAIN files[size].FirstPassHashes :
                   files[size].FirstPassHashes[sum] = NoPath =>
                      /\ size \in DOMAIN files'
                      /\ sum \in DOMAIN files'[size].FirstPassHashes
                      /\ files'[size].FirstPassHashes[sum] = NoPath
      ]_vars

C28_Witness ==
    /\ pc = "loop" /\ unreadable = {} /\ todo = {} /\ PlacedOnce
    /\ \E size \in DOMAIN files : files[size].Unhashed # NoPath
    /\ \E size \in DOMAIN files :
          /\ \E sum \in DOMAIN files[size].FirstPassHashes :
                files[size].FirstPassHashes[sum] = NoPath
          /\ \E sum \in DOMAIN files[size].FirstPassHashes :
                files[size].FirstPassHashes[sum] # NoPath
          /\ \E sum \in DOMAIN files[size].FullHashes :
                Len(files[size].FullHashes[sum]) = 2

\* C29: the "logic error!" is not reached.  In every reachable state, for
\* every order of the loop and every pattern of hash failures, a bucket with
\* a non-empty Unhashed has empty FirstPassHashes and FullHashes, and Dupes
\* panics only in the walk of a root that does not exist.
C29_LogicErrorUnreachable ==
    /\ \A size \in DOMAIN files :
          files[size].Unhashed # NoPath =>
             /\ DOMAIN files[size].FirstPassHashes = {}
             /\ DOMAIN files[size].FullHashes = {}
    /\ pc = "panic" => MissingRoot /\ files = EmptyMap

C29_Witness ==
    /\ pc = "loop" /\ todo = {}
    /\ \E size \in DOMAIN files :
          /\ files[size].Unhashed \in unreadable
          /\ \E c \in FailedCalls :
                c.path = files[size].Unhashed /\ CopiesIn(c, hashCalls) >= 2
    /\ \E size \in DOMAIN files : files[size].Unhashed = NoPath

\* the names of a group are pairwise distinct
DistinctNames(g) == Cardinality(Range(g.Names)) = Len(g.Names)

\* C25: one call of runAutomatic on groups with pairwise distinct names
\* never removes every file of a group: for every prefer, over and invert
\* at least one name of each group is not passed to remove.
C25_GroupNeverEmptied ==
    Ran =>
        \A gi \in 1..Len(found) :
            DistinctNames(found[gi]) => Range(found[gi].Names) \ Removed # {}

C25_Witness ==
    /\ Ran /\ args.invert /\ ~args.over.nil /\ ~args.dryRun
    /\ \E gi \in 1..Len(found) :
          /\ Len(found[gi].Names) = 3 /\ DistinctNames(found[gi])
          /\ Cardinality(RemovedIn(gi)) = 2
          /\ Cardinality(Range(found[gi].Names) \cap exists) = 1

\* C26: after any sequence of runs of runAutomatic that are not dry and use
\* the same cache path, whatever their prefer, over and invert, at least one
\* file of every group the first scan found is still on disk.
C26_GroupSurvivesRuns ==
    firstScan.done =>
        \A k \in 1..Len(firstScan.groups) :
            Range(firstScan.groups[k].Names) \cap exists # {}

\* C27: cache coherence.  Whenever getDupesAndPrintSummary returns groups
\* loaded from the cache file, they are groups a scan of the roots would
\* return at that moment, also after an earlier run removed files.
C27_CacheCoherence ==
    (Ran /\ "Loaded" \in out) => found \in FreshScan(existsAtCall)

----------------------------------------------------------------------------
\* Vocabulary of the properties of runInteractive: what the lines of
\* InputLines answer, as the prompt "Keep [F]irst/[a]ll/[n]th?" reads them

FirstLines == { <<"f", Nl>>, <<"F", Nl>>, <<Nl>>, <<" ", "f", " ", Nl>> }
AllLines == { <<"a", Nl>>, <<"A", Nl>> }
NumberLines ==
    { <<<<"0", Nl>>, 0>>, <<<<"1", Nl>>, 1>>, <<<<"2", Nl>>, 2>>,
      <<<<"3", Nl>>, 3>>, <<<<"4", Nl>>, 4>>, <<<<"+", "2", Nl>>, 2>>,
      <<<<"0", "3", Nl>>, 3>>, <<<<"-", "1", Nl>>, -1>> }
IsNumberLine(l) == \E pr \in NumberLines : pr[1] = l
NumberOf(l) == (CHOOSE pr \in NumberLines : pr[1] = l)[2]

\* C21: interactive mode, for the group under review.  The answer f, or an
\* empty line, removes every file but the first and goes on; a removes
\* nothing and goes on; a number n with 1 <= n <= len(Names) removes every
\* file but the n-th and goes on; any other answer removes nothing and the
\* same group is prompted again.
C21_InteractiveAnswer ==
    [][(pc = "review" /\ pc' # "fatal") =>
          LET names == found[curGroup + 1].Names
              new == removeCalls' \ removeCalls
              gone == { c.file : c \in new }
              l == curLine'
              Keeps(n) ==
                  /\ gone = Range(names) \ {names[n]}
                  /\ \A c \in new : c.keep = names[n] /\ c.g = curGroup + 1
                  /\ exists' = IF args.dryRun THEN exists ELSE exists \ gone
                  /\ names[n] \in exists => names[n] \in exists'
                  /\ curGroup' = curGroup + 1
              Again ==
                  /\ new = {}
                  /\ exists' = exists
                  /\ curGroup' = curGroup
                  /\ pc' = "review"
          IN  CASE l \in FirstLines -> Keeps(1)
                [] l \in AllLines ->
                      new = {} /\ exists' = exists /\ curGroup' = curGroup + 1
                [] IsNumberLine(l) ->
                      IF 1 <= NumberOf(l) /\ NumberOf(l) <= Len(names)
                      THEN Keeps(NumberOf(l))
                      ELSE Again
                [] OTHER -> Again
      ]_vars

\* the second group is prompted again after an answer that kept the second
\* file of the first group and removed the others
C21_Witness ==
    /\ pc = "review" /\ curGroup = 1 /\ prompts >= 1 /\ ~args.dryRun
    /\ Len(found[1].Names) = 3
    /\ Range(found[1].Names) \cap exists = {found[1].Names[2]}
    /\ \A c \in removeCalls : c.keep = found[1].Names[2]
    /\ removeCalls # {}

====
